---------------------------- MODULE Spec2Model ----------------------------
(***************************************************************************)
(* Model of the csrf token library (src/src/lib.rs).                       *)
(*                                                                         *)
(* Token is a u32, PaddedToken a u64.  An unsigned integer is modelled at  *)
(* its full width as the sequence of its base-256 digits, least            *)
(* significant digit first: a u32 has 4 digits, a u64 has 8.  A text is a  *)
(* sequence of one-character strings.  Results of fallible functions are   *)
(* records [ok |-> TRUE, val |-> v] or [ok |-> FALSE, err |-> message].    *)
(***************************************************************************)
EXTENDS Integers, Sequences, FiniteSets, TLC

VARIABLES
    bigEndian,  \* byte order of the target the crate was built for
    secret,     \* the Token a session stores
    rendered,   \* the form renders of the session, oldest first
    text,       \* a text submitted by a client
    call        \* the last library call: [fn, arg, ret]

vars == <<bigEndian, secret, rendered, text, call>>

---------------------------------------------------------------------------
(* Bounds of the model. *)

\* how many of SampleWords are used as tokens and one-time pads
NumWords == 3

\* how many forms one session renders
MaxRenders == 3

\* longest byte string whose encoding a client submits
MaxBytes == 9

---------------------------------------------------------------------------
(* Widths. *)

\* size_of::<u32>(), the width of Token
TokenBytes == 4

\* size_of::<u64>(), the width of PaddedToken
PaddedBytes == 8

\* the shift that places the pad in the high half
OtpShift == 32

---------------------------------------------------------------------------
(* Fixed-width unsigned arithmetic on digit sequences. *)

RECURSIVE BitXor(_, _, _)
BitXor(a, b, n) ==
    IF n = 0 THEN 0
    ELSE ((a + b) % 2) + 2 * BitXor(a \div 2, b \div 2, n - 1)

RECURSIVE BitOr(_, _, _)
BitOr(a, b, n) ==
    IF n = 0 THEN 0
    ELSE (IF a % 2 = 1 \/ b % 2 = 1 THEN 1 ELSE 0)
         + 2 * BitOr(a \div 2, b \div 2, n - 1)

RECURSIVE BitAnd(_, _, _)
BitAnd(a, b, n) ==
    IF n = 0 THEN 0
    ELSE (IF a % 2 = 1 /\ b % 2 = 1 THEN 1 ELSE 0)
         + 2 * BitAnd(a \div 2, b \div 2, n - 1)

\* x ^ y
Xor(x, y) == [i \in 1..Len(x) |-> BitXor(x[i], y[i], 8)]

\* x | y
Or(x, y) == [i \in 1..Len(x) |-> BitOr(x[i], y[i], 8)]

\* x & y
And(x, y) == [i \in 1..Len(x) |-> BitAnd(x[i], y[i], 8)]

\* x << bits, bits a multiple of 8; digits shifted past the width are lost
Shl(x, bits) ==
    [i \in 1..Len(x) |-> IF i - (bits \div 8) >= 1 THEN x[i - (bits \div 8)] ELSE 0]

\* x >> bits, bits a multiple of 8
Shr(x, bits) ==
    [i \in 1..Len(x) |-> IF i + (bits \div 8) <= Len(x) THEN x[i + (bits \div 8)] ELSE 0]

\* x as u64, for a u32 x
AsU64(x) == x \o [i \in 1..(PaddedBytes - TokenBytes) |-> 0]

\* x as u32, for a u64 x
AsU32(x) == SubSeq(x, 1, TokenBytes)

\* the literal 0xFFFFFFFF as a u64
LowMask == [i \in 1..PaddedBytes |-> IF i <= TokenBytes THEN 255 ELSE 0]

Reverse(s) == [i \in 1..Len(s) |-> s[Len(s) + 1 - i]]

---------------------------------------------------------------------------
(* Values the random source returns in the model. *)

SampleWords ==
    << <<239, 190, 173, 222>>,   \* 0xDEADBEEF
       <<120, 86, 52, 18>>,      \* 0x12345678
       <<0, 0, 0, 0>>,           \* 0x00000000
       <<255, 255, 255, 255>>,   \* 0xFFFFFFFF
       <<1, 0, 0, 0>>,           \* 0x00000001
       <<0, 0, 0, 128>>,         \* 0x80000000
       <<4, 3, 2, 1>> >>         \* 0x01020304

\* rng.next_u32()
next_u32 == {SampleWords[i] : i \in 1..NumWords}

---------------------------------------------------------------------------
(* The base64 crate: standard alphabet, with padding. *)

Alphabet ==
    << "A", "B", "C", "D", "E", "F", "G", "H", "I", "J", "K", "L", "M",
       "N", "O", "P", "Q", "R", "S", "T", "U", "V", "W", "X", "Y", "Z",
       "a", "b", "c", "d", "e", "f", "g", "h", "i", "j", "k", "l", "m",
       "n", "o", "p", "q", "r", "s", "t", "u", "v", "w", "x", "y", "z",
       "0", "1", "2", "3", "4", "5", "6", "7", "8", "9", "+", "/" >>

AlphabetChars == {Alphabet[i] : i \in 1..Len(Alphabet)}

\* the 6-bit value of an alphabet character
DecodeTable == [c \in AlphabetChars |-> CHOOSE v \in 0..63 : Alphabet[v + 1] = c]

Sym(v) == Alphabet[v + 1]

RECURSIVE Base64Encode(_)
Base64Encode(bytes) ==
    IF Len(bytes) = 0 THEN <<>>
    ELSE IF Len(bytes) = 1 THEN
        << Sym(bytes[1] \div 4), Sym((bytes[1] % 4) * 16), "=", "=" >>
    ELSE IF Len(bytes) = 2 THEN
        LET n == bytes[1] * 256 + bytes[2] IN
        << Sym(n \div 1024), Sym((n \div 16) % 64), Sym((n % 16) * 4), "=" >>
    ELSE
        LET n == bytes[1] * 65536 + bytes[2] * 256 + bytes[3] IN
        << Sym(n \div 262144), Sym((n \div 4096) % 64),
           Sym((n \div 64) % 64), Sym(n % 64) >>
        \o Base64Encode(SubSeq(bytes, 4, Len(bytes)))

\* the bytes of a run of alphabet characters; the bits left over are dropped
RECURSIVE DecodeSymbols(_)
DecodeSymbols(data) ==
    IF Len(data) < 2 THEN <<>>
    ELSE IF Len(data) = 2 THEN
        << DecodeTable[data[1]] * 4 + DecodeTable[data[2]] \div 16 >>
    ELSE IF Len(data) = 3 THEN
        << DecodeTable[data[1]] * 4 + DecodeTable[data[2]] \div 16,
           (DecodeTable[data[2]] % 16) * 16 + DecodeTable[data[3]] \div 4 >>
    ELSE
        << DecodeTable[data[1]] * 4 + DecodeTable[data[2]] \div 16,
           (DecodeTable[data[2]] % 16) * 16 + DecodeTable[data[3]] \div 4,
           (DecodeTable[data[3]] % 4) * 64 + DecodeTable[data[4]] >>
        \o DecodeSymbols(SubSeq(data, 5, Len(data)))

\* Error::description() of the crate's two decode errors
InvalidByte == "invalid byte"

InvalidLength == "invalid length"

\* A character the decoder rejects: one outside the alphabet, a '=' in the
\* first half of a quad, or anything but '=' after a '='.
BadSymbolAt(input, i) ==
    \/ input[i] \notin AlphabetChars \cup {"="}
    \/ input[i] = "=" /\ (i - 1) % 4 < 2
    \/ input[i] # "=" /\ \E j \in 1..(i - 1) : input[j] = "="

IsData(c) == c # "="

\* base64::decode
Base64Decode(input) ==
    IF \E i \in 1..Len(input) : BadSymbolAt(input, i)
    THEN [ok |-> FALSE, err |-> InvalidByte]
    ELSE LET data == SelectSeq(input, IsData) IN
         IF Len(data) % 4 = 1
         THEN [ok |-> FALSE, err |-> InvalidLength]
         ELSE [ok |-> TRUE, val |-> DecodeSymbols(data)]

---------------------------------------------------------------------------
(* The byteorder crate: reading from a Cursor at position 0. *)

\* Error::description() of the read error
UnexpectedEof == "failed to fill whole buffer"

\* the first n bytes are the digits, least significant first; bytes after
\* them stay unread in the cursor
ReadLittleEndian(bytes, n) ==
    IF Len(bytes) < n
    THEN [ok |-> FALSE, err |-> UnexpectedEof]
    ELSE [ok |-> TRUE, val |-> SubSeq(bytes, 1, n)]

read_u32(bytes) == ReadLittleEndian(bytes, TokenBytes)

read_u64(bytes) == ReadLittleEndian(bytes, PaddedBytes)

---------------------------------------------------------------------------
(* Token and PaddedToken. *)

Base64DecodeError(message) == [ok |-> FALSE, err |-> message]

Ok(v) == [ok |-> TRUE, val |-> v]

\* the object's memory, in address order
RawParts(x) == IF bigEndian THEN Reverse(x) ELSE x

Token_into(self) == RawParts(self)

Token_fmt(self) == Base64Encode(Token_into(self))

\* variant: every failure is reported with one fixed message
Token_from_base64_str_one_message(base64) ==
    LET decoded == Base64Decode(base64) IN
    IF ~decoded.ok THEN Base64DecodeError("decode error")
    ELSE LET token == read_u32(decoded.val) IN
         IF ~token.ok THEN Base64DecodeError("decode error")
         ELSE Ok(token.val)

Token_from_base64_str(base64) ==
    LET decoded == Base64Decode(base64) IN
    IF ~decoded.ok THEN Base64DecodeError(decoded.err)
    ELSE LET token == read_u32(decoded.val) IN
         IF ~token.ok THEN Base64DecodeError(token.err)
         ELSE Ok(token.val)

\* variant: the pad is combined with | where the code has ^
PaddedToken_new_or(real_token, otp) ==
    LET masked == Or(otp, real_token) IN
    Or(Shl(AsU64(otp), OtpShift), AsU64(masked))

\* variant: the pad drawn is dropped and a pad of zero is used
PaddedToken_new_zero_pad(real_token, otp) ==
    LET zero == [i \in 1..TokenBytes |-> 0]
        masked == Xor(zero, real_token)
    IN  Or(Shl(AsU64(zero), OtpShift), AsU64(masked))

PaddedToken_new(real_token, otp) ==
    LET masked == Xor(otp, real_token) IN
    Or(Shl(AsU64(otp), OtpShift), AsU64(masked))

\* variant: the pad is taken from bits 24..55
PaddedToken_unmask_shift24(self) ==
    LET otp == AsU32(Shr(self, OtpShift - 8))
        masked == AsU32(And(self, LowMask))
    IN  Xor(otp, masked)

PaddedToken_unmask(self) ==
    LET otp == AsU32(Shr(self, OtpShift))
        masked == AsU32(And(self, LowMask))
    IN  Xor(otp, masked)

PaddedToken_into(self) == RawParts(self)

PaddedToken_fmt(self) == Base64Encode(PaddedToken_into(self))

PaddedToken_from_base64_str(base64) ==
    LET decoded == Base64Decode(base64) IN
    IF ~decoded.ok THEN Base64DecodeError(decoded.err)
    ELSE LET token == read_u64(decoded.val) IN
         IF ~token.ok THEN Base64DecodeError(token.err)
         ELSE Ok(token.val)

---------------------------------------------------------------------------
(* Texts a client may submit: encodings of byte strings of every length up *)
(* to MaxBytes, with and without padding, cut short, or with one character *)
(* replaced by '!' or '='.                                                 *)

ByteStrings ==
    {SubSeq(w1 \o w2 \o w1, 1, k) : w1 \in next_u32, w2 \in next_u32, k \in 0..MaxBytes}

Variants(t) ==
    {t, SelectSeq(t, IsData)}
    \cup {SubSeq(t, 1, Len(t) - 1) : k \in {n \in {1} : Len(t) > 0}}
    \cup {[t EXCEPT ![j] = c] : j \in 1..Len(t), c \in {"!", "="}}

TextInputs == UNION {Variants(Base64Encode(bytes)) : bytes \in ByteStrings}

NoCall == [fn |-> "none", arg |-> <<>>, ret |-> <<>>]

---------------------------------------------------------------------------
(* Operations. *)

\* Token::new(): a session starts with a fresh secret
TokenNew ==
    /\ \E t \in next_u32 :
          /\ secret' = t
          /\ call' = [fn |-> "Token::new", arg |-> <<>>, ret |-> t]
    /\ rendered' = <<>>
    /\ UNCHANGED <<bigEndian, text>>

\* PaddedToken::new(&secret) and its Display: one form is rendered
Render ==
    /\ Len(rendered) < MaxRenders
    /\ \E otp \in next_u32 :
          LET padded == PaddedToken_new(secret, otp) IN
          /\ rendered' = Append(rendered,
                 [otp |-> otp, padded |-> padded, text |-> PaddedToken_fmt(padded)])
          /\ call' = [fn |-> "PaddedToken::new", arg |-> secret, ret |-> padded]
    /\ UNCHANGED <<bigEndian, secret, text>>

\* a rendered form comes back: its text is decoded and unmasked
SubmitForm ==
    /\ \E i \in 1..Len(rendered) :
          LET decoded == PaddedToken_from_base64_str(rendered[i].text) IN
          call' = [fn |-> "submit", arg |-> rendered[i].text,
                   ret |-> IF decoded.ok
                           THEN Ok(PaddedToken_unmask(decoded.val))
                           ELSE decoded]
    /\ UNCHANGED <<bigEndian, secret, rendered, text>>

\* the text of a rendered form is read with Token::from_base64_str
SubmitAsToken ==
    /\ \E i \in 1..Len(rendered) :
          call' = [fn |-> "Token::from_base64_str", arg |-> rendered[i].text,
                   ret |-> Token_from_base64_str(rendered[i].text)]
    /\ UNCHANGED <<bigEndian, secret, rendered, text>>

\* Token::from_base64_str(text)
DecodeToken ==
    /\ call' = [fn |-> "Token::from_base64_str", arg |-> text,
                ret |-> Token_from_base64_str(text)]
    /\ UNCHANGED <<bigEndian, secret, rendered, text>>

\* PaddedToken::from_base64_str(text)
DecodePadded ==
    /\ call' = [fn |-> "PaddedToken::from_base64_str", arg |-> text,
                ret |-> PaddedToken_from_base64_str(text)]
    /\ UNCHANGED <<bigEndian, secret, rendered, text>>

\* unmask() of the PaddedToken just decoded
Unmask ==
    /\ call.fn = "PaddedToken::from_base64_str"
    /\ call.ret.ok
    /\ call' = [fn |-> "PaddedToken::unmask", arg |-> call.ret.val,
                ret |-> PaddedToken_unmask(call.ret.val)]
    /\ UNCHANGED <<bigEndian, secret, rendered, text>>

\* Display for the Token just decoded
FormatToken ==
    /\ call.fn = "Token::from_base64_str"
    /\ call.ret.ok
    /\ text' = Token_fmt(call.ret.val)
    /\ call' = [fn |-> "Token::fmt", arg |-> call.ret.val, ret |-> text']
    /\ UNCHANGED <<bigEndian, secret, rendered>>

\* Display for the PaddedToken just decoded
FormatPadded ==
    /\ call.fn = "PaddedToken::from_base64_str"
    /\ call.ret.ok
    /\ text' = PaddedToken_fmt(call.ret.val)
    /\ call' = [fn |-> "PaddedToken::fmt", arg |-> call.ret.val, ret |-> text']
    /\ UNCHANGED <<bigEndian, secret, rendered>>

---------------------------------------------------------------------------
(* A session: a secret, its rendered forms, and their submission. *)

Init ==
    /\ bigEndian \in BOOLEAN
    /\ secret \in next_u32
    /\ rendered = <<>>
    /\ text = <<>>
    /\ call = [fn |-> "Token::new", arg |-> <<>>, ret |-> secret]

Next ==
    \/ TokenNew
    \/ Render
    \/ SubmitForm
    \/ SubmitAsToken

Spec == Init /\ [][Next]_vars

(* The codecs on arbitrary client text. *)

InitCodec ==
    /\ bigEndian \in BOOLEAN
    /\ secret \in next_u32
    /\ rendered = <<>>
    /\ text \in TextInputs
    /\ call = NoCall

NextCodec ==
    \/ DecodeToken
    \/ DecodePadded
    \/ Unmask
    \/ FormatToken
    \/ FormatPadded

SpecCodec == InitCodec /\ [][NextCodec]_vars

---------------------------------------------------------------------------
(* Vocabulary of the properties. *)

\* bits 32..63 and bits 0..31 of a 64-bit value
High32(m) == SubSeq(m, TokenBytes + 1, PaddedBytes)

Low32(m) == SubSeq(m, 1, TokenBytes)

\* the little-endian bytes of a value: byte i is the digit of 256^i
LittleEndianBytes(x) == x

IsU32(x) == Len(x) = TokenBytes /\ \A i \in 1..TokenBytes : x[i] \in 0..255

Renders == 1..Len(rendered)

---------------------------------------------------------------------------
(* Properties. *)

\* C1: every PaddedToken made from the session's secret, whatever pad was
\* drawn, unmasks to that secret.
RoundTripMasking ==
    \A i \in Renders : PaddedToken_unmask(rendered[i].padded) = secret

\* a form rendered from 0x12345678 with the pad 0xDEADBEEF
RoundTripMaskingWitness ==
    \E i \in Renders :
        /\ secret = SampleWords[2]
        /\ rendered[i].otp = SampleWords[1]
        /\ Low32(rendered[i].padded) # secret
        /\ PaddedToken_unmask(rendered[i].padded) = secret

\* C2: the text of a Token (of a PaddedToken) is the base64 of its 4 (8)
\* little-endian bytes, and decoding that text gives the value back.
TextRoundTrip ==
    /\ call.fn = "Token::fmt" =>
          /\ call.ret = Base64Encode(LittleEndianBytes(call.arg))
          /\ Token_from_base64_str(call.ret) = Ok(call.arg)
    /\ call.fn = "PaddedToken::fmt" =>
          /\ call.ret = Base64Encode(LittleEndianBytes(call.arg))
          /\ PaddedToken_from_base64_str(call.ret) = Ok(call.arg)

\* C3: Token::from_base64_str succeeds exactly when the text is valid base64
\* of exactly 4 bytes; shorter and longer byte strings are errors.
TokenDecodeExactLength ==
    call.fn = "Token::from_base64_str" =>
        LET decoded == Base64Decode(call.arg) IN
        call.ret.ok <=> (decoded.ok /\ Len(decoded.val) = TokenBytes)

\* C4: PaddedToken::from_base64_str succeeds exactly when the text is valid
\* base64 of exactly 8 bytes, and the value is then the little-endian u64 of
\* those bytes.
PaddedDecodeExactLength ==
    call.fn = "PaddedToken::from_base64_str" =>
        LET decoded == Base64Decode(call.arg) IN
        /\ call.ret.ok <=> (decoded.ok /\ Len(decoded.val) = PaddedBytes)
        /\ call.ret.ok => LittleEndianBytes(call.ret.val) = decoded.val

\* C5: a rendered PaddedToken has the pad in its high 32 bits and pad XOR
\* secret in its low 32 bits, and its bytes are the little-endian bytes of
\* the masked half followed by the little-endian bytes of the pad.
BitLayout ==
    \A i \in Renders :
        LET masked == Xor(rendered[i].otp, secret) IN
        /\ High32(rendered[i].padded) = rendered[i].otp
        /\ Low32(rendered[i].padded) = masked
        /\ PaddedToken_into(rendered[i].padded)
              = LittleEndianBytes(masked) \o LittleEndianBytes(rendered[i].otp)

\* C6: unmask of any 64-bit value, also one decoded from client text, is the
\* 32-bit value high half XOR low half, and the value unmasked is the one
\* that was decoded.
UnmaskTotal ==
    /\ call.fn = "PaddedToken::unmask" =>
          /\ IsU32(call.ret)
          /\ call.ret = Xor(High32(call.arg), Low32(call.arg))
          /\ PaddedToken_from_base64_str(text) = Ok(call.arg)
    /\ (call.fn = "PaddedToken::from_base64_str" /\ call.ret.ok) => ENABLED Unmask

\* a decoded value whose halves are both non-zero and differ
UnmaskTotalWitness ==
    /\ call.fn = "PaddedToken::unmask"
    /\ High32(call.arg) = SampleWords[1]
    /\ Low32(call.arg) = SampleWords[2]
    /\ call.ret \notin {High32(call.arg), Low32(call.arg)}

\* C7: two PaddedTokens rendered from one secret are equal exactly when
\* their pads are equal, and renders with different pads have different
\* texts.
Freshness ==
    \A i \in Renders : \A j \in Renders :
        /\ rendered[i].padded = rendered[j].padded <=> rendered[i].otp = rendered[j].otp
        /\ rendered[i].otp # rendered[j].otp => rendered[i].text # rendered[j].text

\* three renders, the first two with one pad and the third with another
FreshnessWitness ==
    /\ Len(rendered) = 3
    /\ rendered[1].otp = rendered[2].otp
    /\ rendered[1].text = rendered[2].text
    /\ rendered[3].otp # rendered[1].otp
    /\ rendered[3].text # rendered[1].text

\* C8: a decode error carries one of the base64 decoder's messages exactly
\* when the text is not valid base64, and the reader's message when the text
\* is valid base64 of too few bytes; the two never coincide.
ErrorCauseDistinguishable ==
    (call.fn \in {"Token::from_base64_str", "PaddedToken::from_base64_str"}
        /\ ~call.ret.ok) =>
        LET decoded == Base64Decode(call.arg) IN
        /\ ~decoded.ok => call.ret.err = decoded.err
        /\ ~decoded.ok => call.ret.err \in {InvalidByte, InvalidLength}
        /\ decoded.ok => call.ret.err = UnexpectedEof
        /\ call.ret.err = UnexpectedEof => decoded.ok

\* valid base64 of 3 bytes read as a Token
ErrorCauseDistinguishableWitness ==
    /\ call.fn = "Token::from_base64_str"
    /\ ~call.ret.ok
    /\ Base64Decode(call.arg).ok
    /\ Len(Base64Decode(call.arg).val) = 3
    /\ call.ret.err = UnexpectedEof

\* C9: every text rendered so far decodes to a PaddedToken that unmasks to
\* the stored secret, and a submitted form yields the secret.
SessionInvariant ==
    /\ \A i \in Renders :
          LET decoded == PaddedToken_from_base64_str(rendered[i].text) IN
          decoded.ok /\ PaddedToken_unmask(decoded.val) = secret
    /\ call.fn = "submit" => call.ret = Ok(secret)

\* C10: the text of a rendered PaddedToken read with Token::from_base64_str
\* gives the low 32 bits (the masked half), which is the secret only when the
\* pad is zero.
CrossTypeDecoding ==
    call.fn = "Token::from_base64_str" =>
        \A i \in Renders :
            rendered[i].text = call.arg =>
                /\ call.ret = Ok(Low32(rendered[i].padded))
                /\ call.ret = Ok(secret) => rendered[i].otp = SampleWords[3]

=============================================================================
